---- MODULE Spec2Model ----
(***************************************************************************)
(* Model of post_receive_email.py: a git post-receive hook that reads one  *)
(* update record per input line and sends one notification mail per        *)
(* branch/tag update.                                                      *)
(*                                                                         *)
(* Strings whose characters matter (configuration values, paths) are       *)
(* sequences of one-character strings; object ids, ref path segments and   *)
(* labels are TLA+ strings.  An input line is the sequence of its          *)
(* whitespace-separated tokens; a ref name is the sequence of its          *)
(* '/'-separated segments.                                                 *)
(***************************************************************************)
EXTENDS Integers, Sequences, FiniteSets, TLC

VARIABLES gitcfg, lines, pc, outcome, log_file_path, log, config, results, calls

vars == <<gitcfg, lines, pc, outcome, log_file_path, log, config, results, calls>>

(* ---------------- bounds ---------------- *)
MaxLines == 2
MaxPrefixLen == 2

(* ---------------- configuration keys ---------------- *)
MAILINGLIST == "hooks.mailinglist"
EMAILPREFIX == "hooks.emailprefix"
SMTP_HOST == "hooks.smtp-host"
SMTP_PORT == "hooks.smtp-port"
SMTP_SENDER == "hooks.smtp-sender"
SMTP_SENDER_PASSWORD == "hooks.smtp-sender-password"
POST_RECEIVE_LOGFILE == "hooks.post-receive-logfile"
DEBUG == "hooks.debug"

Keys == {MAILINGLIST, EMAILPREFIX, SMTP_HOST, SMTP_PORT, SMTP_SENDER,
         SMTP_SENDER_PASSWORD, POST_RECEIVE_LOGFILE, DEBUG}

RequiredKeys == {SMTP_HOST, SMTP_PORT, SMTP_SENDER, SMTP_SENDER_PASSWORD}

(* ---------------- the environment: git configuration ---------------- *)
Unset == [set |-> FALSE, val |-> <<>>]
Val(v) == [set |-> TRUE, val |-> v]

DevNull == <<"/", "d", "e", "v", "/", "n", "u", "l", "l">>
GoodPath == <<"h", ".", "l", "o", "g">>
BadPath == <<"/", "x", "/", "l">>

\* open(path, 'a'): the empty path and a path in a missing directory fail
CanOpen(path) == path \in {GoodPath, DevNull}

RECURSIVE StringsUpTo(_, _)
StringsUpTo(A, n) ==
  IF n = 0 THEN {<<>>}
  ELSE LET S == StringsUpTo(A, n - 1)
       IN S \cup {Append(s, c) : s \in {t \in S : Len(t) = n - 1}, c \in A}

PrefixVals == {Unset} \cup {Val(s) : s \in StringsUpTo({"a", " "}, MaxPrefixLen)}
DebugVals == {Unset, Val(<<"t", "r", "u", "e">>), Val(<<"f", "a", "l", "s", "e">>), Val(<<"0">>)}
LogfileVals == {Unset, Val(GoodPath), Val(BadPath)}
HostVals == {Unset, Val(<<>>), Val(<<"h">>)}
PortVals == {Unset, Val(<<"4", "6", "5">>), Val(<<"x">>)}
SenderVals == {Unset, Val(<<"s">>)}
PasswordVals == {Unset, Val(<<"p">>)}
RecipientVals == {Unset, Val(<<"r", ",", " ", "q">>), Val(<<" ", ",">>)}

MkCfg(pf, d, lf, h, po, s, pw, r) ==
  [k \in Keys |->
     CASE k = EMAILPREFIX -> pf
       [] k = DEBUG -> d
       [] k = POST_RECEIVE_LOGFILE -> lf
       [] k = SMTP_HOST -> h
       [] k = SMTP_PORT -> po
       [] k = SMTP_SENDER -> s
       [] k = SMTP_SENDER_PASSWORD -> pw
       [] OTHER -> r]

\* every combination of the configuration values above
CfgAll ==
  {MkCfg(pf, d, lf, h, po, s, pw, r) :
     pf \in PrefixVals, d \in DebugVals, lf \in LogfileVals, h \in HostVals,
     po \in PortVals, s \in SenderVals, pw \in PasswordVals, r \in RecipientVals}

\* the configurations used when the input lines are varied
CfgRun ==
  {MkCfg(pf, d, lf, h, Val(<<"4", "6", "5">>), Val(<<"s">>), Val(<<"p">>), r) :
     pf \in {Unset, Val(<<"a">>)}, d \in {Unset, Val(<<"t", "r", "u", "e">>)},
     lf \in LogfileVals, h \in {Unset, Val(<<"h">>)},
     r \in {Unset, Val(<<"r">>)}}

(* ---------------- the environment: the repository ---------------- *)
Dummy == "0000000000000000000000000000000000000000"

\* c0 <- c1 <- c2 is a chain, c3 is an unrelated root
Commits == {"c0", "c1", "c2", "c3"}
Parent == [c \in Commits |-> CASE c = "c1" -> "c0" [] c = "c2" -> "c1" [] OTHER -> ""]

RECURSIVE Ancestors(_)
\* the commits reachable from c, c included
Ancestors(c) == IF c \notin Commits THEN {} ELSE {c} \cup Ancestors(Parent[c])

(* ---------------- the input ---------------- *)
Branch(n) == <<"refs", "heads", n>>
Tag(n) == <<"refs", "tags", n>>

BranchLines ==
  {<<p[1], p[2], Branch("main")>> :
     p \in {<<Dummy, "c2">>, <<"c1", Dummy>>, <<"c1", "c2">>, <<"c0", "c2">>,
            <<"c2", "c1">>, <<"c1", "c3">>, <<"c1", "c1">>}}
TagLines ==
  {<<p[1], p[2], Tag("v1")>> :
     p \in {<<Dummy, "c1">>, <<"c1", Dummy>>, <<"c1", "c2">>}}
OtherLines == {<<"c1", "c2", <<"refs", "notes", "commits">>>>, <<"c1", "c2">>}

InputLines == BranchLines \cup TagLines \cup OtherLines

RECURSIVE SeqsUpTo(_, _)
SeqsUpTo(S, n) ==
  IF n = 0 THEN {<<>>}
  ELSE LET T == SeqsUpTo(S, n - 1)
       IN T \cup {Append(t, x) : t \in {u \in T : Len(u) = n - 1}, x \in S}

(* ---------------- git_config_get ---------------- *)
\* stdout of `git config --get name`: the value and a newline, or nothing
GitConfigStdout(name) ==
  IF gitcfg[name].set THEN Append(gitcfg[name].val, "\n") ELSE <<>>

\* the default parameter is accepted and never used
git_config_get(name, default) ==
  LET out == GitConfigStdout(name) IN SubSeq(out, 1, Len(out) - 1)

(* ---------------- get_config_variables ---------------- *)
\* s and s[0] not in 'fF0'; the empty string is falsy
bool_from_str(s) == IF s = <<>> THEN FALSE ELSE s[1] \notin {"f", "F", "0"}

Digits == <<"0", "1", "2", "3", "4", "5", "6", "7", "8", "9">>
DigitVal(c) == (CHOOSE k \in 1..Len(Digits) : Digits[k] = c) - 1
IsDigit(c) == \E k \in 1..Len(Digits) : Digits[k] = c

\* int(v) raises ValueError unless v is a non-empty run of decimal digits
IntParses(v) == v # <<>> /\ \A k \in 1..Len(v) : IsDigit(v[k])

RECURSIVE int(_)
int(v) == IF v = <<>> THEN 0 ELSE 10 * int(SubSeq(v, 1, Len(v) - 1)) + DigitVal(v[Len(v)])

IsSep(c) == c \in {" ", ","}

RECURSIVE SplitRecipients(_, _)
\* [r for r in re.split(' *, *| +', v) if r]: the maximal runs of characters
\* that are neither a space nor a comma; cur is the run being read
SplitRecipients(v, cur) ==
  IF v = <<>> THEN (IF cur = <<>> THEN <<>> ELSE <<cur>>)
  ELSE IF IsSep(Head(v))
       THEN (IF cur = <<>> THEN <<>> ELSE <<cur>>) \o SplitRecipients(Tail(v), <<>>)
       ELSE SplitRecipients(Tail(v), Append(cur, Head(v)))

\* the normalisation with the space appended to every non-empty prefix
NormalizePrefix_always(p) == IF p # <<>> THEN Append(p, " ") ELSE p

\* lines 279-280: a non-empty prefix not ending in a space gains one
NormalizePrefix(p) == IF p # <<>> /\ p[Len(p)] # " " THEN Append(p, " ") ELSE p

optional(variable, default) == git_config_get(variable, default)

\* required(): raises when the value read is empty (absent or set to empty)
RequiredRaises(variable) == git_config_get(variable, <<>>) = <<>>

NoConfig ==
  [valid |-> FALSE, prefix |-> <<>>, debug |-> FALSE, logfile |-> <<>>,
   host |-> <<>>, port |-> 0, sender |-> <<>>, password |-> <<>>,
   recipients |-> <<>>]

\* TRUE iff get_config_variables raises (RuntimeError from required, or
\* ValueError from int) instead of returning
ConfigRaises ==
  \/ \E k \in RequiredKeys : RequiredRaises(k)
  \/ ~IntParses(git_config_get(SMTP_PORT, <<>>))

get_config_variables ==
  [valid |-> TRUE,
   prefix |-> NormalizePrefix(optional(EMAILPREFIX, <<>>)),
   debug |-> bool_from_str(optional(DEBUG, <<>>)),
   logfile |-> optional(POST_RECEIVE_LOGFILE, DevNull),
   host |-> git_config_get(SMTP_HOST, <<>>),
   port |-> int(git_config_get(SMTP_PORT, <<>>)),
   sender |-> git_config_get(SMTP_SENDER, <<>>),
   password |-> git_config_get(SMTP_SENDER_PASSWORD, <<>>),
   recipients |-> SplitRecipients(git_config_get(MAILINGLIST, <<>>), <<>>)]

(* ---------------- classification ---------------- *)
\* l.split(): the line's tokens
parse_post_receive_line(l) == l

\* unpacking into (old_rev, new_rev, ref_name) raises ValueError otherwise
UnpackRaises(tokens) == Len(tokens) # 3

ref_type_name(ref) ==
  LET name == ref[Len(ref)]
  IN IF Len(ref) >= 3 /\ ref[1] = "refs" /\ ref[2] = "heads" THEN <<"branch", name>>
     ELSE IF Len(ref) >= 3 /\ ref[1] = "refs" /\ ref[2] = "tags" THEN <<"tag", name>>
     ELSE <<"unknown", name>>

is_dummy_rev(rev) == rev = Dummy

(* ---------------- external calls ---------------- *)
\* one external call made while record rec is handled, and how it ended
\* (status: the exit status of an ancestry query, -1 when the wait timed out)
Call(op, a, b, rec, ret) ==
  [op |-> op, a |-> a, b |-> b, rec |-> rec, ret |-> ret, status |-> 0]
Op(op, a, b) == [op |-> op, a |-> a, b |-> b]

\* what the environment does to the calls of one record: the at-th external
\* call fails (0: none does); an ancestry query fails by status or by timeout
FailPoints == 0..6
Envs == [at : FailPoints, how : {"status", "timeout"}]

\* git show / rev-list exit non-zero on an object the repository lacks
GitObjOk(o) == o.a \in Commits /\ (o.op \in {"rev_list_count", "rev_list_pretty"} => o.b \in Commits)

\* Mailer.send returns at once when there are no recipients
MailerSendRet(failing) ==
  IF config.recipients = <<>> THEN "noop" ELSE IF failing THEN "raise" ELSE "ok"

\* the n-th external call of the record, o, under environment e
CallRet(o, n, e) ==
  IF o.op = "send" THEN MailerSendRet(e.at = n)
  ELSE IF e.at = n \/ ~GitObjOk(o) THEN "raise" ELSE "ok"

\* position in ops of the first call that raises, 0 when none does
FirstRaise(ops, base, e) ==
  LET R == {k \in 1..Len(ops) : CallRet(ops[k], base + k, e) = "raise"}
  IN IF R = {} THEN 0 ELSE CHOOSE k \in R : \A j \in R : k <= j

\* run the calls ops in order, after base earlier calls, up to the first raise
RunCalls(ops, rec, base, e) ==
  LET f == FirstRaise(ops, base, e)
      n == IF f = 0 THEN Len(ops) ELSE f
  IN [raised |-> f # 0,
      calls |-> [k \in 1..n |->
                   Call(ops[k].op, ops[k].a, ops[k].b, rec, CallRet(ops[k], base + k, e))]]

\* the outcome of handling one record
Result(case, res, why, cs) == [case |-> case, res |-> res, why |-> why, calls |-> cs]
Handled(case, r) ==
  Result(case, IF r.raised THEN "raised" ELSE "sent",
         IF r.raised THEN "external" ELSE "", r.calls)

\* git merge-base --is-ancestor rev1 rev2, waited on for one second
GitMergeBase(rev1, rev2, fail, how) ==
  IF fail /\ how = "timeout" THEN [timeout |-> TRUE, retcode |-> 0]
  ELSE IF fail \/ rev1 \notin Commits \/ rev2 \notin Commits
       THEN [timeout |-> FALSE, retcode |-> 128]
       ELSE [timeout |-> FALSE, retcode |-> IF rev1 \in Ancestors(rev2) THEN 0 ELSE 1]

\* is_descendant_commit with every answer but "yes" read as "no"
is_descendant_commit_lenient(w) ==
  IF ~w.timeout /\ w.retcode = 0 THEN "True" ELSE "False"

\* "True", "False" or "raise" from the wait on the ancestry query
is_descendant_commit(w) ==
  IF w.timeout THEN "raise"
  ELSE IF w.retcode = 0 THEN "True"
  ELSE IF w.retcode = 1 THEN "False"
  ELSE "raise"

\* the record of one ancestry query and of what is_descendant_commit made of it
AncestryCall(rev1, rev2, rec, w) ==
  [op |-> "is_ancestor", a |-> rev1, b |-> rev2, rec |-> rec,
   ret |-> is_descendant_commit(w), status |-> IF w.timeout THEN -1 ELSE w.retcode]

\* git rev-list --count old..new: commits reachable from new and not from old
num_commits_in_range(old_rev, new_rev) ==
  Cardinality(Ancestors(new_rev) \ Ancestors(old_rev))

(* ---------------- the handlers ---------------- *)
process_new_branch(rev, name, rec, e) ==
  Handled("new_branch",
          RunCalls(<<Op("commit_subject", rev, ""), Op("commiter_email", rev, ""),
                     Op("show_format", rev, ""), Op("send", "new branch", name)>>,
                   rec, 0, e))

process_delete_branch(rev, name, rec, e) ==
  Handled("delete_branch",
          RunCalls(<<Op("commiter_email", rev, ""), Op("send", "delete branch", name)>>,
                   rec, 0, e))

\* rev^{commit} of a tag of the repository is the commit it names
process_new_tag(rev, name, rec, e) ==
  Handled("new_tag",
          RunCalls(<<Op("peel", rev, ""), Op("commit_subject", rev, ""),
                     Op("commiter_email", rev, ""), Op("show", rev, ""),
                     Op("send", "new tag", name)>>,
                   rec, 0, e))

process_delete_tag(rev, name, rec, e) ==
  Handled("delete_tag",
          RunCalls(<<Op("peel", rev, ""), Op("commiter_email", rev, ""),
                     Op("send", "delete tag", name)>>,
                   rec, 0, e))

process_unknown(old_rev, new_rev, ref_name) == Result("unknown", "none", "", <<>>)

\* the subject choice with the plural case taken for every n but 1
NewCommitsSubject_any(n) == IF n = 1 THEN "new commit" ELSE "new commits"

\* lines 186-200: which subject is composed for n new commits
NewCommitsSubject(n) ==
  IF n = 1 THEN "new commit" ELSE IF n > 0 THEN "new commits" ELSE "raise"

process_new_commits(old_rev, new_rev, name, rec, base, e) ==
  LET cnt == RunCalls(<<Op("rev_list_count", old_rev, new_rev)>>, rec, base, e)
      subject == NewCommitsSubject(num_commits_in_range(old_rev, new_rev))
      rest == RunCalls(<<Op("commit_subject", new_rev, ""),
                         Op("rev_list_pretty", old_rev, new_rev),
                         Op("commiter_email", new_rev, ""),
                         Op("send", subject, name)>>,
                       rec, base + 1, e)
  IN IF cnt.raised THEN Handled("new_commits", cnt)
     ELSE IF subject = "raise" THEN Result("new_commits", "raised", "zero", cnt.calls)
     ELSE Handled("new_commits", [rest EXCEPT !.calls = cnt.calls \o @])

process_forced_reset(old_rev, new_rev, name, rec, base, e) ==
  Handled("forced_reset",
          RunCalls(<<Op("commit_subject", new_rev, ""), Op("show_format", new_rev, ""),
                     Op("commiter_email", new_rev, ""), Op("send", "forced reset", name)>>,
                   rec, base, e))

process_forced_unknown(old_rev, new_rev, name, rec, base, e) ==
  Handled("forced_unknown",
          RunCalls(<<Op("commit_subject", new_rev, ""), Op("show_format", new_rev, ""),
                     Op("commiter_email", new_rev, ""), Op("send", "forced rewrite", name)>>,
                   rec, base, e))

WithCalls(pre, r) == [r EXCEPT !.calls = pre \o @]

process_commit_range(old_rev, new_rev, name, rec, e) ==
  LET q1 == AncestryCall(old_rev, new_rev, rec, GitMergeBase(old_rev, new_rev, e.at = 1, e.how))
      q2 == AncestryCall(new_rev, old_rev, rec, GitMergeBase(new_rev, old_rev, e.at = 2, e.how))
      d1 == q1.ret
      d2 == q2.ret
  IN IF d1 = "raise" THEN Result("commit_range", "raised", "external", <<q1>>)
     ELSE IF d1 = "True"
          THEN WithCalls(<<q1>>, process_new_commits(old_rev, new_rev, name, rec, 1, e))
     ELSE IF d2 = "raise" THEN Result("commit_range", "raised", "external", <<q1, q2>>)
     ELSE IF d2 = "True"
          THEN WithCalls(<<q1, q2>>, process_forced_reset(old_rev, new_rev, name, rec, 2, e))
     ELSE WithCalls(<<q1, q2>>, process_forced_unknown(old_rev, new_rev, name, rec, 2, e))

\* lines 246-261: one iteration of the loop of post_receive, on line number rec
post_receive_line(line, rec, e) ==
  LET tokens == parse_post_receive_line(line)
      old_rev == tokens[1]
      new_rev == tokens[2]
      ref_name == tokens[3]
      tn == ref_type_name(ref_name)
      ref_type == tn[1]
      name == tn[2]
  IN IF UnpackRaises(tokens) THEN Result("unpack", "raised", "parse", <<>>)
     ELSE IF ref_type = "branch"
          THEN IF is_dummy_rev(old_rev) THEN process_new_branch(new_rev, name, rec, e)
               ELSE IF is_dummy_rev(new_rev) THEN process_delete_branch(old_rev, name, rec, e)
               ELSE process_commit_range(old_rev, new_rev, name, rec, e)
     ELSE IF ref_type = "tag"
          THEN IF is_dummy_rev(old_rev) THEN process_new_tag(new_rev, name, rec, e)
               ELSE IF is_dummy_rev(new_rev) THEN process_delete_tag(old_rev, name, rec, e)
               ELSE Result("tag_update", "none", "", <<>>)
     ELSE process_unknown(old_rev, new_rev, ref_name)

(* ---------------- main ---------------- *)
Ts == [kind |-> "timestamp", line |-> <<>>]
Trace == [kind |-> "trace", line |-> <<>>]
LogLine(l) == [kind |-> "line", line |-> l]

\* log_file.writelines(stdinlines)
LogLines(ls) == [k \in 1..Len(ls) |-> LogLine(ls[k])]

\* the except clause of main: a timestamp line, then the trace
LogError == <<Ts, Trace>>

\* a loop that goes on to the next line after an exception
LoopContinues_isolated(res) == TRUE

\* an exception raised inside the for loop of post_receive leaves the loop
LoopContinues(res) == res # "raised"

InitWith(Cfgs, Inputs) ==
  /\ gitcfg \in Cfgs
  /\ lines \in Inputs
  /\ pc = "main"
  /\ outcome = "running"
  /\ log_file_path = <<>>
  /\ log = <<>>
  /\ config = NoConfig
  /\ results = <<>>
  /\ calls = <<>>

Init == InitWith(CfgRun, SeqsUpTo(InputLines, MaxLines))

\* lines 291-292: read the log path and open the log; the open is outside the try
OpenLog ==
  /\ pc = "main"
  /\ log_file_path' = git_config_get(POST_RECEIVE_LOGFILE, <<>>)
  /\ IF CanOpen(log_file_path')
     THEN pc' = "try" /\ outcome' = outcome
     ELSE pc' = "done" /\ outcome' = "escaped"
  /\ UNCHANGED <<gitcfg, lines, log, config, results, calls>>

\* lines 294-301: read the input, read the configuration, write the debug log
Configure ==
  /\ pc = "try"
  /\ IF ConfigRaises
     THEN /\ log' = log \o LogError
          /\ pc' = "done"
          /\ outcome' = "caught"
          /\ config' = config
     ELSE /\ config' = get_config_variables
          /\ log' = IF config'.debug THEN log \o <<Ts>> \o LogLines(lines) ELSE log
          /\ pc' = "loop"
          /\ outcome' = outcome
  /\ UNCHANGED <<gitcfg, lines, log_file_path, results, calls>>

\* lines 245-261 and 303-305: handle the next line
ProcessRecord ==
  /\ pc = "loop"
  /\ Len(results) < Len(lines)
  /\ \E e \in Envs :
       LET rec == Len(results) + 1
           r == post_receive_line(lines[rec], rec, e)
       IN /\ results' = Append(results, [case |-> r.case, res |-> r.res, why |-> r.why])
          /\ calls' = calls \o r.calls
          /\ IF LoopContinues(r.res)
             THEN UNCHANGED <<log, pc, outcome>>
             ELSE /\ log' = log \o LogError
                  /\ pc' = "done"
                  /\ outcome' = "caught"
  /\ UNCHANGED <<gitcfg, lines, log_file_path, config>>

\* the loop ends and main returns
Finish ==
  /\ pc = "loop"
  /\ Len(results) = Len(lines)
  /\ pc' = "done"
  /\ outcome' = "ok"
  /\ UNCHANGED <<gitcfg, lines, log_file_path, log, config, results, calls>>

Next == OpenLog \/ Configure \/ ProcessRecord \/ Finish

Spec == Init /\ [][Next]_vars

\* the same program, with the configuration varied and at most one input line
InitCfg == InitWith(CfgAll, {<<>>} \cup {<<l>> : l \in InputLines})

SpecCfg == InitCfg /\ [][Next]_vars

(* ======================= properties ======================= *)
Processed == 1..Len(results)

KindOf(l) == IF UnpackRaises(l) THEN "malformed" ELSE ref_type_name(l[3])[1]
BothPresent(l) == ~UnpackRaises(l) /\ ~is_dummy_rev(l[1]) /\ ~is_dummy_rev(l[2])
IsBranchUpdate(l) == KindOf(l) = "branch" /\ BothPresent(l)
IsTagUpdate(l) == KindOf(l) = "tag" /\ BothPresent(l)
IsZeroChange(l) == IsBranchUpdate(l) /\ l[1] = l[2]

CallsOf(i) == SelectSeq(calls, LAMBDA c : c.rec = i)
SendsOf(i) == SelectSeq(calls, LAMBDA c : c.rec = i /\ c.op = "send")
AncestryOf(i) == SelectSeq(calls, LAMBDA c : c.rec = i /\ c.op = "is_ancestor")

\* the record numbers of the Mailer.send calls made so far, in call order
SendRecs ==
  LET s == SelectSeq(calls, LAMBDA c : c.op = "send")
  IN [k \in 1..Len(s) |-> s[k].rec]

RECURSIVE RefRecsUpTo(_)
\* the numbers of the first n lines whose ref is a branch or a tag, in order
RefRecsUpTo(n) ==
  IF n = 0 THEN <<>>
  ELSE IF KindOf(lines[n]) \in {"branch", "tag"}
       THEN Append(RefRecsUpTo(n - 1), n)
       ELSE RefRecsUpTo(n - 1)

EndsWithError == Len(log) >= 2 /\ SubSeq(log, Len(log) - 1, Len(log)) = LogError

RequiredMissing == \E k \in RequiredKeys : git_config_get(k, <<>>) = <<>>

\* C1: a tag record with both ids non-dummy (a tag updated in place) is
\* handled by raising an error, never by completing with no action.
C1_TagUpdateRaises ==
  \A i \in Processed : IsTagUpdate(lines[i]) => results[i].res = "raised"

\* C2: no error escapes main: whatever the configuration and the input, the
\* run never ends with an exception propagating out of main.
C2_NoErrorEscapesMain == outcome # "escaped"

\* C3: a branch record with both ids non-dummy and equal never has a
\* Mailer.send call: handling it raises, and when no external call failed
\* the ancestry query answered yes, the count was taken (0) and
\* process_new_commits raised before any further query or send.
C3_ZeroChangeNeverSends ==
  \A i \in Processed :
    IsZeroChange(lines[i]) =>
      /\ SendsOf(i) = <<>>
      /\ results[i].res = "raised"
      /\ results[i].why \in {"zero", "external"}
      /\ (\A k \in 1..Len(CallsOf(i)) : CallsOf(i)[k].ret # "raise") => results[i].why = "zero"
      /\ results[i].why = "zero" =>
            /\ results[i].case = "new_commits"
            /\ num_commits_in_range(lines[i][1], lines[i][2]) = 0
            /\ CallsOf(i) = <<AncestryCall(lines[i][1], lines[i][2], i,
                                            [timeout |-> FALSE, retcode |-> 0]),
                               Call("rev_list_count", lines[i][1], lines[i][2], i, "ok")>>

C3_Witness ==
  \E i \in Processed : IsZeroChange(lines[i]) /\ results[i].why = "zero"

\* C4: for a branch record with both ids non-dummy, the first external call
\* asks whether old is an ancestor of new; the reverse query is made exactly
\* when the first answered no; an answer is yes/no only on exit status 0/1 and
\* then agrees with the repository; any other status or a timeout raises and
\* dispatches no handler; otherwise exactly one of new_commits (first yes),
\* forced_reset (first no, second yes), forced_unknown (both no) is dispatched.
C4_AncestryDispatch ==
  \A i \in Processed :
    IsBranchUpdate(lines[i]) =>
      LET old == lines[i][1]
          new == lines[i][2]
          q == AncestryOf(i)
          all == CallsOf(i)
          Truth(c) == IF c.a \in Ancestors(c.b) THEN "True" ELSE "False"
      IN /\ Len(q) \in {1, 2}
         /\ SubSeq(all, 1, Len(q)) = q
         /\ q[1].a = old /\ q[1].b = new
         /\ Len(q) = 2 <=> q[1].ret = "False"
         /\ Len(q) = 2 => q[2].a = new /\ q[2].b = old
         /\ \A k \in 1..Len(q) :
              /\ q[k].status \in {0, 1} => q[k].ret = Truth(q[k])
              /\ q[k].status \notin {0, 1} => q[k].ret = "raise"
         /\ results[i].case \in {"new_commits", "forced_reset", "forced_unknown", "commit_range"}
         /\ results[i].case = "new_commits" <=> q[1].ret = "True"
         /\ results[i].case = "forced_reset" <=> (Len(q) = 2 /\ q[2].ret = "True")
         /\ results[i].case = "forced_unknown" <=> (Len(q) = 2 /\ q[2].ret = "False")
         /\ results[i].case = "commit_range" <=> q[Len(q)].ret = "raise"
         /\ results[i].case = "commit_range" =>
              results[i].res = "raised" /\ Len(all) = Len(q)

C4_Witness ==
  /\ \E i \in Processed :
       IsBranchUpdate(lines[i]) /\ results[i].case = "forced_reset" /\ results[i].res = "sent"
  /\ \E i \in Processed :
       IsBranchUpdate(lines[i]) /\ results[i].case = "commit_range"
                                /\ Len(AncestryOf(i)) = 2

\* C5: while no record has raised, the Mailer.send calls made are, in order,
\* exactly one per handled record whose ref is a branch or a tag, and a
\* record of unknown kind has no external call at all.
C5_OneSendPerRefRecord ==
  (\A i \in Processed : results[i].res # "raised") =>
    /\ SendRecs = RefRecsUpTo(Len(results))
    /\ \A i \in Processed : KindOf(lines[i]) = "unknown" => CallsOf(i) = <<>>

\* C6: when a required setting is absent or empty, the finished run has made
\* no git query and no Mailer.send call, has handled no record, and its log
\* ends with a timestamp line followed by a trace.
C6_MissingRequiredAbortsAndLogs ==
  (pc = "done" /\ RequiredMissing) =>
    /\ calls = <<>>
    /\ results = <<>>
    /\ EndsWithError

EndsInSpace(p) == p # <<>> /\ p[Len(p)] = " "
EndsInOneSpace(p) == EndsInSpace(p) /\ (Len(p) >= 2 => p[Len(p) - 1] # " ")

\* the relation of the stored prefix to the configured one that C7 states,
\* apart from how the stored prefix ends
PrefixRelation(raw, p) ==
  /\ raw = <<>> => p = <<>>
  /\ (raw # <<>> /\ ~EndsInSpace(raw)) => p = Append(raw, " ")
  /\ EndsInSpace(raw) => p = raw
  /\ NormalizePrefix(p) = p

\* C7 as stated: the stored prefix is empty or ends in exactly one space.
C7_PrefixEndsInExactlyOneSpace ==
  config.valid =>
    /\ PrefixRelation(git_config_get(EMAILPREFIX, <<>>), config.prefix)
    /\ config.prefix = <<>> \/ EndsInOneSpace(config.prefix)

\* C7 amended: the stored prefix is empty (when unset or set to empty) or
\* ends in a space; a value without a trailing space gains exactly one, a
\* value ending in a space is stored unchanged, and normalising the stored
\* prefix again changes nothing.
C7_PrefixEndsInSpace ==
  config.valid =>
    /\ PrefixRelation(git_config_get(EMAILPREFIX, <<>>), config.prefix)
    /\ config.prefix = <<>> \/ EndsInSpace(config.prefix)
    /\ config.prefix = <<>> <=> git_config_get(EMAILPREFIX, <<>>) = <<>>

C7_Witness ==
  /\ config.valid
  /\ git_config_get(EMAILPREFIX, <<>>) # <<>>
  /\ ~EndsInSpace(git_config_get(EMAILPREFIX, <<>>))
  /\ config.prefix = Append(git_config_get(EMAILPREFIX, <<>>), " ")

\* C8: with the log-file setting absent, the path main opens, and the value
\* get_config_variables stores, are the null-device default.
C8_LogPathDefaultsToNullDevice ==
  (~gitcfg[POST_RECEIVE_LOGFILE].set /\ pc # "main") =>
    /\ log_file_path = DevNull
    /\ config.valid => config.logfile = DevNull

\* C9: once handling of line i has raised, the run is over: i is the last
\* line handled, no external call (so no Mailer.send) belongs to a later
\* line, and every earlier line that ended with a send still has exactly
\* that one Mailer.send call on record.
C9_NoIsolationNoRollback ==
  \A i \in Processed :
    results[i].res = "raised" =>
      /\ i = Len(results)
      /\ pc = "done"
      /\ outcome = "caught"
      /\ \A k \in 1..Len(calls) : calls[k].rec <= i
      /\ \A j \in 1..(i - 1) : results[j].res = "sent" => Len(SendsOf(j)) = 1

C9_Witness ==
  /\ Len(results) = 2 /\ Len(lines) >= 2
  /\ results[1].res = "sent"
  /\ results[2].res = "raised"
  /\ Len(SendsOf(1)) = 1

\* C10: a finished run with the debug setting enabled has a log that starts
\* with a timestamp line followed by all input lines in order, and a run that
\* ended in an error has a log that ends with a timestamp line and a trace.
C10_DebugLogsInputAndErrorsLogged ==
  pc = "done" =>
    /\ bool_from_str(git_config_get(DEBUG, <<>>)) =>
          /\ Len(log) >= 1 + Len(lines)
          /\ SubSeq(log, 1, 1 + Len(lines)) = <<Ts>> \o LogLines(lines)
    /\ outcome \in {"caught", "escaped"} => EndsWithError

====
